---- MODULE Spec2Model ----
(***************************************************************************)
(* Model of scripts/tools/silkscreen_calc.py: calc_silk_x and calc_silk_y  *)
(* pick two of three candidate silkscreen lines from the body edges and    *)
(* the corner where pad numbering starts.                                  *)
(*                                                                         *)
(* Python values are encoded as records [tag, s, d]: None, a str (s is the *)
(* tuple of its characters) or a dict (d is a function from keys to        *)
(* values).  body_edge is a dict from edge names to numbers.  A call       *)
(* result is a record [status, line1, line2]; status is "ok" or the name   *)
(* of the exception the call raised.                                       *)
(***************************************************************************)
EXTENDS Integers, Sequences, FiniteSets, TLC

VARIABLES device_params, body_edge, result_x, result_y

vars == <<device_params, body_edge, result_x, result_y>>

\* Edge coordinates range over -MaxCoord..MaxCoord.
MaxCoord == 1

Coord == (0 - MaxCoord)..MaxCoord

-----------------------------------------------------------------------------
(* String literals, as tuples of characters *)

s_top == <<"t","o","p">>
s_left == <<"l","e","f","t">>
s_top_left == <<"t","o","p","_","l","e","f","t">>
s_top_right == <<"t","o","p","_","r","i","g","h","t">>
s_bottom_left == <<"b","o","t","t","o","m","_","l","e","f","t">>
s_bottom_right == <<"b","o","t","t","o","m","_","r","i","g","h","t">>
s_middle_left == <<"m","i","d","d","l","e","_","l","e","f","t">>
s_top_center == <<"t","o","p","_","c","e","n","t","e","r">>
s_Top_Left == <<"T","o","p","_","L","e","f","t">>
s_underscore == <<"_">>
s_laptop_leftover == <<"l","a","p","t","o","p","_","l","e","f","t","o","v","e","r">>
s_topleft == <<"t","o","p","l","e","f","t">>
s_top_left_x == <<"t","o","p","_","l","e","f","t","_","x">>
s_top__left == <<"t","o","p","_","_","l","e","f","t">>
s_smd == <<"s","m","d">>

ValidStarts == {s_top_left, s_top_right, s_bottom_left, s_bottom_right}

\* Two '_'-separated tokens, but not one of the four corners.
OddStarts == {s_middle_left, s_top_center, s_Top_Left, s_underscore, s_laptop_leftover}

\* Not two '_'-separated tokens.
MalformedStarts == {s_topleft, s_top_left_x, s_top__left}

Starts == ValidStarts \cup OddStarts \cup MalformedStarts

-----------------------------------------------------------------------------
(* Python values *)

EmptyDict == [k \in {} |-> 0]

None == [tag |-> "None", s |-> <<>>, d |-> EmptyDict]

Str(chars) == [tag |-> "str", s |-> chars, d |-> EmptyDict]

Dict(f) == [tag |-> "dict", s |-> <<>>, d |-> f]

\* bool(v): None, "" and {} are falsy.
truthy(v) ==
    CASE v.tag = "None" -> FALSE
      [] v.tag = "str" -> Len(v.s) > 0
      [] v.tag = "dict" -> DOMAIN v.d # {}

\* d.get(k): the value under k, None when k is absent.
dict_get(d, k) == IF k \in DOMAIN d THEN d[k] ELSE None

\* a or b
py_or(a, b) == IF truthy(a) THEN a ELSE b

\* d[k] as .get(k, 0) would do it: never raises.
getitem_default(d, k) ==
    [raised |-> FALSE, value |-> IF k \in DOMAIN d THEN d[k] ELSE 0]

\* d[k]: raises KeyError when k is absent.
getitem(d, k) ==
    IF k \in DOMAIN d
    THEN [raised |-> FALSE, value |-> d[k]]
    ELSE [raised |-> TRUE, value |-> 0]

RECURSIVE split_from(_, _, _)
\* Tokens of s from position i on, cur being the token read so far.
split_from(s, i, cur) ==
    IF i > Len(s) THEN <<cur>>
    ELSE IF s[i] = "_" THEN <<cur>> \o split_from(s, i + 1, <<>>)
    ELSE split_from(s, i + 1, Append(cur, s[i]))

\* s.split("_", 1): splits at the first '_' only.
split_once(s) ==
    IF \E i \in 1..Len(s) : s[i] = "_"
    THEN LET i == CHOOSE j \in 1..Len(s) :
                      s[j] = "_" /\ \A k \in 1..(j - 1) : s[k] # "_"
         IN <<SubSeq(s, 1, i - 1), SubSeq(s, i + 1, Len(s))>>
    ELSE <<s>>

\* s.split("_")
split(s) == split_from(s, 1, <<>>)

\* sub == s
equals(sub, s) == sub = s

\* sub in s
contains(sub, s) ==
    \E i \in 0..(Len(s) - Len(sub)) : SubSeq(s, i + 1, i + Len(sub)) = sub

-----------------------------------------------------------------------------
(* Call results *)

NotCalled == [status |-> "NotCalled", line1 |-> <<>>, line2 |-> <<>>]

Raised(exc) == [status |-> exc, line1 |-> <<>>, line2 |-> <<>>]

Returned(l1, l2) == [status |-> "ok", line1 |-> l1, line2 |-> l2]

-----------------------------------------------------------------------------
(* calc_silk_x *)

\* The candidate lines as the module docstring's summary lists them,
\* read from the other axis's edges.
lines_x_docstring(edge) ==
    LET t == getitem(edge, "top")
        b == getitem(edge, "bottom")
    IN [raised |-> t.raised \/ b.raised,
        value |-> <<<<0, t.value>>, <<0, b.value>>, <<t.value, b.value>>>>]

\* lines = [(0, left), (0, right), (left, right)]; 1-indexed here.
lines_x(edge) ==
    LET l == getitem(edge, "left")
        r == getitem(edge, "right")
    IN [raised |-> l.raised \/ r.raised,
        value |-> <<<<0, l.value>>, <<0, r.value>>, <<l.value, r.value>>>>]

\* The top branch with the two single-origin candidates exchanged.
select_x_swapped(lines, tb, lr) ==
    IF contains(s_top, tb)
    THEN Returned(IF contains(s_left, lr) THEN lines[1] ELSE lines[2], lines[3])
    ELSE Returned(lines[3], IF contains(s_left, lr) THEN lines[2] ELSE lines[1])

\* The bottom branch without its assignment of line1, which keeps the default.
select_x_stale(lines, tb, lr) ==
    IF contains(s_top, tb)
    THEN Returned(IF contains(s_left, lr) THEN lines[2] ELSE lines[1], lines[3])
    ELSE Returned(lines[2], IF contains(s_left, lr) THEN lines[2] ELSE lines[1])

\* The if/else over tb and lr; line1 and line2 are both assigned on each path.
select_x(lines, tb, lr) ==
    IF contains(s_top, tb)
    THEN Returned(IF contains(s_left, lr) THEN lines[2] ELSE lines[1], lines[3])
    ELSE Returned(lines[3], IF contains(s_left, lr) THEN lines[2] ELSE lines[1])

\* A default corner other than the one the default lines stand for.
default_start_right == Str(s_top_right)

\* The literal "top_left" of `.get("start") or "top_left"`.
default_start == Str(s_top_left)

\* start = device_params["pad_numbers"].get("start") or "top_left"
start_of(params) == py_or(dict_get(params["pad_numbers"].d, "start"), default_start).s

calc_silk_x(params, edge) ==
    LET lines == lines_x(edge) IN
    IF lines.raised THEN Raised("KeyError")
    ELSE IF ~truthy(dict_get(params, "pad_numbers"))
    THEN Returned(lines.value[2], lines.value[3])
    ELSE LET parts == split(start_of(params)) IN
         IF Len(parts) # 2 THEN Raised("ValueError")
         ELSE select_x(lines.value, parts[1], parts[2])

-----------------------------------------------------------------------------
(* calc_silk_y *)

\* lines = [(0, top), (0, bottom), (top, bottom)]; 1-indexed here.
lines_y(edge) ==
    LET t == getitem(edge, "top")
        b == getitem(edge, "bottom")
    IN [raised |-> t.raised \/ b.raised,
        value |-> <<<<0, t.value>>, <<0, b.value>>, <<t.value, b.value>>>>]

\* The left branch with the two single-origin candidates exchanged.
select_y_swapped(lines, tb, lr) ==
    IF contains(s_left, lr)
    THEN Returned(IF contains(s_top, tb) THEN lines[1] ELSE lines[2], lines[3])
    ELSE Returned(lines[3], IF contains(s_top, tb) THEN lines[2] ELSE lines[1])

\* The body of calc_silk_x's selection, tb deciding the slot of the dual-edge line.
select_y_as_x(lines, tb, lr) ==
    IF contains(s_top, tb)
    THEN Returned(IF contains(s_left, lr) THEN lines[2] ELSE lines[1], lines[3])
    ELSE Returned(lines[3], IF contains(s_left, lr) THEN lines[2] ELSE lines[1])

\* The if/else over lr and tb.
select_y(lines, tb, lr) ==
    IF contains(s_left, lr)
    THEN Returned(IF contains(s_top, tb) THEN lines[2] ELSE lines[1], lines[3])
    ELSE Returned(lines[3], IF contains(s_top, tb) THEN lines[2] ELSE lines[1])

calc_silk_y(params, edge) ==
    LET lines == lines_y(edge) IN
    IF lines.raised THEN Raised("KeyError")
    ELSE IF ~truthy(dict_get(params, "pad_numbers"))
    THEN Returned(lines.value[2], lines.value[3])
    ELSE LET parts == split(start_of(params)) IN
         IF Len(parts) # 2 THEN Raised("ValueError")
         ELSE select_y(lines.value, parts[1], parts[2])

-----------------------------------------------------------------------------
(* Inputs *)

EdgeNames == {"left", "right", "top", "bottom"}

\* Dicts with any subset of the four edges, each a number.
BodyEdges == UNION {[S -> Coord] : S \in SUBSET EdgeNames}

\* The start entry of pad_numbers: None, "" or a string.
StartValues == {None, Str(<<>>)} \cup {Str(s) : s \in Starts}

\* pad_numbers dicts: start absent or present, with or without another entry.
PadDicts ==
    {EmptyDict, [k \in {"type"} |-> Str(s_smd)]}
    \cup {[k \in {"start"} |-> v] : v \in StartValues}
    \cup {[k \in {"start", "type"} |-> IF k = "start" THEN v ELSE Str(s_smd)] :
              v \in StartValues}

\* device_params: no pad_numbers entry, pad_numbers None, or a pad_numbers dict.
DeviceParams ==
    {EmptyDict, [k \in {"pad_numbers"} |-> None]}
    \cup {[k \in {"pad_numbers"} |-> Dict(p)] : p \in PadDicts}

-----------------------------------------------------------------------------
(* The calls *)

Init ==
    /\ device_params \in DeviceParams
    /\ body_edge \in BodyEdges
    /\ result_x = NotCalled
    /\ result_y = NotCalled

CallX ==
    /\ result_x = NotCalled
    /\ result_x' = calc_silk_x(device_params, body_edge)
    /\ UNCHANGED <<device_params, body_edge, result_y>>

CallY ==
    /\ result_y = NotCalled
    /\ result_y' = calc_silk_y(device_params, body_edge)
    /\ UNCHANGED <<device_params, body_edge, result_x>>

Next == CallX \/ CallY

Spec == Init /\ [][Next]_vars

-----------------------------------------------------------------------------
(* Vocabulary of the properties *)

CalledX == result_x.status # "NotCalled"

CalledY == result_y.status # "NotCalled"

HasX == {"left", "right"} \subseteq DOMAIN body_edge

HasY == {"top", "bottom"} \subseteq DOMAIN body_edge

L == body_edge["left"]

R == body_edge["right"]

T == body_edge["top"]

B == body_edge["bottom"]

\* pad_numbers is a dict whose start is a string of the set S.
HasPadStart(S) ==
    /\ "pad_numbers" \in DOMAIN device_params
    /\ device_params["pad_numbers"].tag = "dict"
    /\ "start" \in DOMAIN device_params["pad_numbers"].d
    /\ device_params["pad_numbers"].d["start"].tag = "str"
    /\ device_params["pad_numbers"].d["start"].s \in S

PadStart == device_params["pad_numbers"].d["start"].s

\* No pad_numbers, a None or empty one, or one whose start is absent, None or "".
NoStartGiven ==
    \/ "pad_numbers" \notin DOMAIN device_params
    \/ device_params["pad_numbers"].tag = "None"
    \/ /\ device_params["pad_numbers"].tag = "dict"
       /\ \/ "start" \notin DOMAIN device_params["pad_numbers"].d
          \/ device_params["pad_numbers"].d["start"].tag = "None"
          \/ device_params["pad_numbers"].d["start"] = Str(<<>>)

ParamsWithStart(start) ==
    [k \in {"pad_numbers"} |-> Dict([j \in {"start"} |-> Str(start)])]

\* The X-axis truth table.
TableX(start, l, r) ==
    CASE start = s_top_left -> Returned(<<0, r>>, <<l, r>>)
      [] start = s_top_right -> Returned(<<0, l>>, <<l, r>>)
      [] start = s_bottom_left -> Returned(<<l, r>>, <<0, r>>)
      [] start = s_bottom_right -> Returned(<<l, r>>, <<0, l>>)

\* The Y-axis truth table.
TableY(start, tp, bt) ==
    CASE start = s_top_left -> Returned(<<0, bt>>, <<tp, bt>>)
      [] start = s_bottom_left -> Returned(<<0, tp>>, <<tp, bt>>)
      [] start = s_top_right -> Returned(<<tp, bt>>, <<0, bt>>)
      [] start = s_bottom_right -> Returned(<<tp, bt>>, <<0, tp>>)

\* Exactly one of the two lines is the dual-edge candidate, the other a
\* single-origin one.
OneDualOneSingle(res, dual, singles) ==
    /\ res.status = "ok"
    /\ (res.line1 = dual) # (res.line2 = dual)
    /\ res.line1 = dual => res.line2 \in singles
    /\ res.line2 = dual => res.line1 \in singles
    /\ ~(res.line1 \in singles /\ res.line2 \in singles)

-----------------------------------------------------------------------------
(* C1 *)

\* C1: with left and right present and start one of the four corners,
\* calc_silk_x returns the row of the X-axis truth table for that corner.
C1_XTruthTable ==
    (CalledX /\ HasX /\ HasPadStart(ValidStarts)) => result_x = TableX(PadStart, L, R)

C1_Witness ==
    /\ HasX /\ L = -1 /\ R = 1
    /\ HasPadStart({s_top_right})
    /\ result_x = Returned(<<0, -1>>, <<-1, 1>>)

(* C2 *)

\* C2: with top and bottom present and start one of the four corners,
\* calc_silk_y returns the row of the Y-axis truth table for that corner.
C2_YTruthTable ==
    (CalledY /\ HasY /\ HasPadStart(ValidStarts)) => result_y = TableY(PadStart, T, B)

C2_Witness ==
    /\ HasY /\ T = -1 /\ B = 1
    /\ HasPadStart({s_bottom_left})
    /\ result_y = Returned(<<0, -1>>, <<-1, 1>>)

(* C3 *)

\* C3: without pad_numbers (absent, None or empty) or without a start (absent,
\* None or ""), each operation returns what it returns for start = top_left on
\* the same body_edge: ((0,right),(left,right)) and ((0,bottom),(top,bottom)).
C3_DefaultIsTopLeft ==
    NoStartGiven =>
        /\ CalledX => /\ result_x = calc_silk_x(ParamsWithStart(s_top_left), body_edge)
                      /\ HasX => result_x = Returned(<<0, R>>, <<L, R>>)
        /\ CalledY => /\ result_y = calc_silk_y(ParamsWithStart(s_top_left), body_edge)
                      /\ HasY => result_y = Returned(<<0, B>>, <<T, B>>)

C3_Witness ==
    /\ "pad_numbers" \in DOMAIN device_params
    /\ device_params["pad_numbers"].tag = "dict"
    /\ DOMAIN device_params["pad_numbers"].d = {"type"}
    /\ HasX /\ HasY /\ L = -1 /\ R = 1 /\ T = -1 /\ B = 1
    /\ result_x = Returned(<<0, 1>>, <<-1, 1>>)
    /\ result_y = Returned(<<0, 1>>, <<-1, 1>>)

(* C4 *)

\* C4 as stated: for the four corners and left < right, top < bottom, exactly
\* one returned line per axis equals the dual-edge candidate and the other a
\* single-origin candidate.
C4_AsStated ==
    (HasX /\ HasY /\ HasPadStart(ValidStarts) /\ L < R /\ T < B) =>
        /\ CalledX => OneDualOneSingle(result_x, <<L, R>>, {<<0, L>>, <<0, R>>})
        /\ CalledY => OneDualOneSingle(result_y, <<T, B>>, {<<0, T>>, <<0, B>>})

\* C4, amended: the same for left < right with left # 0 (calc_silk_x) and
\* top < bottom with top # 0 (calc_silk_y); with left = 0, resp. top = 0, the
\* dual-edge candidate is itself the single-origin candidate (0,right), resp.
\* (0,bottom).
C4_OneDualOneSingle ==
    (HasX /\ HasY /\ HasPadStart(ValidStarts) /\ L < R /\ T < B) =>
        /\ (CalledX /\ L # 0) =>
              OneDualOneSingle(result_x, <<L, R>>, {<<0, L>>, <<0, R>>})
        /\ (CalledY /\ T # 0) =>
              OneDualOneSingle(result_y, <<T, B>>, {<<0, T>>, <<0, B>>})

C4_Witness ==
    /\ HasX /\ HasY /\ L = -1 /\ R = 0 /\ T = -1 /\ B = 1
    /\ HasPadStart({s_bottom_right})
    /\ result_x = Returned(<<-1, 0>>, <<0, -1>>)
    /\ result_y = Returned(<<-1, 1>>, <<0, -1>>)

(* C5 *)

\* C5: calc_silk_x raises KeyError whenever left or right is missing, and
\* calc_silk_y whenever top or bottom is missing, whatever device_params is;
\* no line is returned.
C5_MissingEdgeRaises ==
    /\ (CalledX /\ ~HasX) => result_x = Raised("KeyError")
    /\ (CalledY /\ ~HasY) => result_y = Raised("KeyError")

C5_Witness ==
    /\ DOMAIN device_params = {}
    /\ DOMAIN body_edge = {"left", "top"}
    /\ result_x = Raised("KeyError")
    /\ result_y = Raised("KeyError")

(* C6 *)

\* C6: a non-empty start that does not split on '_' into exactly two tokens
\* makes both operations raise and return no line; with the axis's edges
\* present the error is the ValueError of the unpacking.
C6_MalformedStartRaises ==
    HasPadStart(MalformedStarts) =>
        /\ CalledX => /\ result_x.status \in {"KeyError", "ValueError"}
                      /\ result_x.line1 = <<>> /\ result_x.line2 = <<>>
                      /\ HasX => result_x = Raised("ValueError")
        /\ CalledY => /\ result_y.status \in {"KeyError", "ValueError"}
                      /\ result_y.line1 = <<>> /\ result_y.line2 = <<>>
                      /\ HasY => result_y = Raised("ValueError")

C6_Witness ==
    /\ HasPadStart({s_top_left_x})
    /\ HasX /\ HasY
    /\ result_x = Raised("ValueError")
    /\ result_y = Raised("ValueError")

(* C8 *)

\* The corner with top iff lr = left and left iff tb = top.
Transposed(start) ==
    CASE start = s_top_left -> s_top_left
      [] start = s_top_right -> s_bottom_left
      [] start = s_bottom_left -> s_top_right
      [] start = s_bottom_right -> s_bottom_right

\* C8: for a valid corner, calc_silk_y on {top: a, bottom: b} returns what
\* calc_silk_x returns on {left: a, right: b} with the transposed corner.
C8_YMirrorsX ==
    (CalledY /\ HasY /\ HasPadStart(ValidStarts)) =>
        result_y = calc_silk_x(ParamsWithStart(Transposed(PadStart)),
                               [k \in {"left", "right"} |-> IF k = "left" THEN T ELSE B])

C8_Witness ==
    /\ HasY /\ T = -1 /\ B = 1
    /\ HasPadStart({s_top_right})
    /\ result_y = Returned(<<-1, 1>>, <<0, 1>>)

(* C9 *)

\* body_edge with the entries under the names of Other replaced by any others.
Variants(Other) ==
    {[k \in (DOMAIN body_edge \ Other) \cup DOMAIN f |->
         IF k \in DOMAIN f THEN f[k] ELSE body_edge[k]] :
       f \in UNION {[S -> Coord] : S \in SUBSET Other}}

TreatedAs(start) ==
    CASE start = s_middle_left -> s_bottom_left
      [] start = s_top_center -> s_top_right
      [] start = s_Top_Left -> s_bottom_right
      [] start = s_underscore -> s_bottom_right
      [] start = s_laptop_leftover -> s_top_left

\* C10: a start of two '_'-separated tokens that is not one of the four
\* corners is not rejected: a first token without "top" counts as bottom, a
\* second without "left" as right, and the truth-table row of that corner is
\* returned.
C10_OddStartAccepted ==
    HasPadStart(OddStarts) =>
        /\ (CalledX /\ HasX) => result_x = TableX(TreatedAs(PadStart), L, R)
        /\ (CalledY /\ HasY) => result_y = TableY(TreatedAs(PadStart), T, B)

C10_Witness ==
    /\ HasPadStart({s_Top_Left})
    /\ HasX /\ HasY /\ L = -1 /\ R = 1 /\ T = -1 /\ B = 1
    /\ result_x = Returned(<<-1, 1>>, <<0, -1>>)
    /\ result_y = Returned(<<-1, 1>>, <<0, -1>>)

====
